---- MODULE Spec2Model ----
(***************************************************************************)
(* The watch-only wallet of src/demos/bitcoin/ElectrumWS.js: the protocol   *)
(* transport (class ElectrumWS) and the wallet built on it (address         *)
(* discovery, the transaction ledger and the unspent outputs).  One action  *)
(* per method or event handler.  JavaScript runs every handler to           *)
(* completion and then drains the microtask queue before the next event is  *)
(* dispatched, so an action covers a handler, or the part of an async       *)
(* function between two awaits, with the continuations it releases.         *)
(***************************************************************************)
EXTENDS Integers, Sequences, FiniteSets, TLC

(***************************************************************************)
(* Bounds of the model.                                                    *)
(***************************************************************************)
\* number of request() calls made in one run (requests, pings, subscribes)
MaxReq == 2
\* number of callback invocations recorded in one run
MaxLog == 2
\* request ids are drawn from 1..IdSpace (the code draws from 1..1e5)
IdSpace == 2
\* addresses with an index below MaxUsed may have a history on the server
MaxUsed == 3
\* the gap limit is drawn from 1..MaxGap
MaxGap == 2
\* number of invocations of the accountExtPubKey watcher in one run
MaxRuns == 2
\* number of addresses that receive a payment in one run
MaxPaid == 1
\* number of outputs of a transaction record
MaxOutputs == 2
\* number of entries of a history the server returns
MaxReceipts == 3
\* number of chunks of an input script, and of items of its witness
MaxItems == 9

\* the number of chain tips the server announces
MaxTips == 5

(***************************************************************************)
(* Strings are sequences of tokens; the tokens form a prefix code, so two  *)
(* token sequences are equal exactly when the strings they spell are.      *)
(***************************************************************************)
Methods == {<<"blockchain.scripthash">>}

StringValue(s) == [t |-> "string", v |-> s]

NumberValue(s) == [t |-> "number", v |-> s]

\* parameter lists handed to request / subscribe / unsubscribe
ParamLists == {<<>>, <<StringValue(<<"x">>)>>}

Ids == 1..IdSpace

\* JSON null, and the value of a promise that has not been settled
NullValue == [t |-> "null", v |-> <<>>]

Undefined == [t |-> "undefined", v |-> <<>>]

Results == {StringValue(<<"r1">>), StringValue(<<"r2">>)}

Errors == {NullValue, StringValue(<<"e1">>)}

\* JavaScript truthiness, as used by `response.error || 'No result'`
Truthy(value) == value.t \notin {"null", "undefined"} /\ value.v # <<>>

\* `${method}.subscribe`
SubscribeMethod(method) == method \o <<".", "subscribe">>

\* `${method}.unsubscribe`
UnsubscribeMethod(method) == method \o <<".", "un", "subscribe">>

\* String.prototype.endsWith('subscribe')
EndsWithSubscribe(method) == Len(method) > 0 /\ method[Len(method)] = "subscribe"

\* `${method}${typeof params[0] === 'string' ? `-${params[0]}` : ''}`
SubscriptionKey(method, params) ==
    method \o (IF Len(params) > 0 /\ params[1].t = "string"
               THEN <<"-">> \o params[1].v
               ELSE <<>>)

(***************************************************************************)
(* Messages the server may put on the socket.  An optional field is a set: *)
(* empty when the field is absent, a singleton when it is present.         *)
(***************************************************************************)
Optional(S) == {{}} \cup {{x} : x \in S}

PushMethods == {SubscribeMethod(m) : m \in Methods}
                   \cup {UnsubscribeMethod(<<"blockchain.scripthash">>), <<"server.version">>}

PushParams == {<<StringValue(<<"x">>)>>, <<StringValue(<<"y">>)>>,
               <<NumberValue(<<"7">>), StringValue(<<"x">>)>>}

ResponseMessages ==
    [id : {{i} : i \in Ids}, result : Optional(Results), error : Optional(Errors),
     method : {{}}, params : {{}}]

PushMessages ==
    [id : {{}}, result : {{}}, error : {{}},
     method : {{SubscribeMethod(m)} : m \in Methods}, params : Optional(PushParams)]
      \cup [id : {{}}, result : {{}}, error : {{}},
            method : {{m} : m \in PushMethods}, params : {{<<StringValue(<<"x">>)>>}}]

\* answers to subscribe and unsubscribe requests
SubResponses ==
    [id : {{i} : i \in Ids}, result : Optional({StringValue(<<"r1">>)}), error : {{}},
     method : {{}}, params : {{}}]

SubMessages == SubResponses \cup PushMessages

\* params of a blockchain.scripthash.subscribe notification: [scripthash, status]
StatusParams == {<<StringValue(<<"x">>), StringValue(<<"s1">>)>>,
                 <<StringValue(<<"x">>), StringValue(<<"s2">>)>>}

StatusPushes ==
    [id : {{}}, result : {{}}, error : {{}},
     method : {{SubscribeMethod(m)} : m \in Methods}, params : {{p} : p \in StatusParams}]

\* envelopes that carry both the fields of a response and those of a notification
MixedMessages ==
    [id : {{i} : i \in Ids}, result : {{StringValue(<<"r1">>)}}, error : {{}},
     method : {{SubscribeMethod(m)} : m \in Methods},
     params : {{<<StringValue(<<"x">>), StringValue(<<"s1">>)>>}}]

DispatchMessages == SubResponses \cup StatusPushes \cup MixedMessages

The(S) == CHOOSE x \in S : TRUE

(***************************************************************************)
(* State.                                                                  *)
(***************************************************************************)
VARIABLES
    wsState,         \* readyState of this.ws: "connecting", "open", "closed"
    connected,       \* this._connected: the identity of the current gate promise
    gates,           \* state of every gate promise created so far
    _pingInterval,   \* this._pingInterval: -1 or the id of the interval timer
    timers,          \* interval timers that are armed
    _requests,       \* this._requests: id -> the request whose resolve/reject it holds
    _subscriptions,  \* this._subscriptions: routing key -> callback
    reqs,            \* every request() call made so far, in call order
    socket,          \* the requests written with ws.send, in order
    cbLog,           \* every invocation of a subscription callback, in order
    released         \* the request() calls resumed from the await by the last step

VARIABLES
    INACTIVE_ADDRESS_GAP,  \* the global gap limit
    accountExtPubKey,      \* the computed account key: 0 (null) or a key
    ext_addresses,         \* this.ext_addresses: a reference to an array object
    int_addresses,         \* this.int_addresses: a reference to an array object
    arrays,                \* the array objects: each a sequence of AddressInfo references
    infos,                 \* the AddressInfo objects created so far
    txs,                   \* this.txs: txid -> record
    runs,                  \* the invocations of the accountExtPubKey watcher
    history,               \* the server: address -> the ids of its transactions
    blocks                 \* the server: txid -> block height, for the confirmed ones

VARIABLES
    signedTx,   \* this.signedTx: <<>> (the empty string) or the id a raw transaction decodes to
    promises,   \* the calls of the facade the wallet has started and not yet been answered
    thrown,     \* the details of the errors the methods of the wallet have thrown
    frame,      \* the locals of the getHistory call in progress
    wire,       \* the requests that getHistory call has made, in order
    decoded,    \* the input inputToPlain was last called with, and its address
    head,       \* this.head: { height, timestamp }
    pushed,     \* tx_hash -> the height the last status handed to onStatusChanged gave it
    announced   \* the height of the last tip notification, 0 before the first

\* the state of the wallet application and of the server it queries
wallet == <<INACTIVE_ADDRESS_GAP, accountExtPubKey, ext_addresses, int_addresses,
            arrays, infos, txs, runs, history, blocks>>

\* the state of the transport, its socket and its callers
transport == <<wsState, connected, gates, _pingInterval, timers, _requests,
               _subscriptions, reqs, socket, cbLog>>

\* the calls in progress
inProgress == <<signedTx, promises, thrown, frame, wire, decoded, head, pushed, announced>>

vars == <<transport, released, wallet, inProgress>>

\* data of the Vue app: no key is loaded, both lists are empty arrays
data ==
    /\ signedTx = <<>>
    /\ head = [height |-> 0, timestamp |-> 0]
    /\ promises = {}
    /\ thrown = {}
    /\ accountExtPubKey = 0
    /\ arrays = << <<>>, <<>> >>
    /\ ext_addresses = 1
    /\ int_addresses = 2
    /\ infos = <<>>
    /\ txs = <<>>
    /\ runs = <<>>

\* no getHistory call has been made, no input decoded, nothing pushed by the server
Idle ==
    /\ decoded = <<>>
    /\ pushed = <<>>
    /\ announced = 0
    /\ frame = [pc |-> "idle", receipts |-> <<>>, history |-> <<>>,
                blockHeights |-> <<>>, blockHeaders |-> <<>>, at |-> 0, txs |-> <<>>]
    /\ wire = <<>>

\* new ElectrumWS(): the socket is being opened and nothing was requested
Constructor ==
    /\ wsState = "connecting"
    /\ connected = 1
    /\ gates = <<"pending">>
    /\ _pingInterval = -1
    /\ timers = {}
    /\ _requests = <<>>
    /\ _subscriptions = <<>>
    /\ reqs = <<>>
    /\ socket = <<>>
    /\ cbLog = <<>>
    /\ released = {}
    /\ Idle

Init ==
    /\ Constructor
    /\ data
    /\ INACTIVE_ADDRESS_GAP = 1
    /\ history = <<>>
    /\ blocks = <<>>

(***************************************************************************)
(* request(): id allocation, registration, the connected gate, ws.send.    *)
(***************************************************************************)
\* (mutation) the allocation loop does not look at the pending map
AnyId(requests) == Ids

\* do { id = Math.ceil(Math.random() * 1e5) } while (this._requests.has(id))
FreeIds(requests) == Ids \ DOMAIN requests

\* this._requests.set(id, {resolve, reject})
Register(requests, id, n) == (id :> n) @@ requests

\* (mutation) the entry of an answered request is left in the map
KeepRegistered(requests, id) == requests

\* this._requests.delete(response.id)
Unregister(requests, id) == [i \in DOMAIN requests \ {id} |-> requests[i]]

\* `await this._connected` lets the caller through once the gate is resolved
GateOpen(gateStates, gate) == gateStates[gate] = "resolved"

\* stage is the call's position: "awaiting" the gate, "sent", or "aborted" by
\* a rejected gate
NewRequest(kind, method, params, callback, id) ==
    [id |-> id, method |-> method, params |-> params, kind |-> kind,
     callback |-> callback, gate |-> connected,
     stage |-> IF GateOpen(gates, connected) THEN "sent" ELSE "awaiting",
     state |-> "pending", value |-> Undefined, calls |-> 0]

\* the body of request(); the send runs in the microtask that follows the
\* await when the gate is already resolved
DoRequest(kind, method, params, callback, id) ==
    /\ reqs' = Append(reqs, NewRequest(kind, method, params, callback, id))
    /\ _requests' = Register(_requests, id, Len(reqs) + 1)
    /\ socket' = IF GateOpen(gates, connected)
                 THEN Append(socket, Len(reqs) + 1)
                 ELSE socket
    /\ released' = {}
    /\ UNCHANGED <<wallet, inProgress>>

\* the promise request() returns to its caller: rejected when the await of
\* the gate throws, otherwise the promise registered in _requests
Outer(r) ==
    IF r.stage = "aborted" THEN "rejected"
    ELSE IF r.stage = "awaiting" THEN "pending"
    ELSE r.state

RequestMethods == {<<"blockchain.block.header">>}

RequestParams == {<<NumberValue(<<"7">>)>>}

Request(method, params) ==
    /\ Len(reqs) < MaxReq
    /\ \E id \in FreeIds(_requests) : DoRequest("request", method, params, 0, id)
    /\ UNCHANGED <<wsState, connected, gates, _pingInterval, timers,
                   _subscriptions, cbLog>>

\* this._subscriptions.set(subscriptionKey, callback)
SetSubscription(subscriptions, key, callback) == (key :> callback) @@ subscriptions

\* (mutation) unsubscribe empties the subscription map
DeleteAll(subscriptions, key) == <<>>

\* this._subscriptions.delete(subscriptionKey)
DeleteSubscription(subscriptions, key) ==
    [k \in DOMAIN subscriptions \ {key} |-> subscriptions[k]]

\* every subscribe call of the facade passes a new closure: the callback of
\* the n-th request() call is named n
NewCallback(rs) == Len(rs) + 1

Subscribe(method, callback, params) ==
    /\ Len(reqs) < MaxReq
    /\ callback = NewCallback(reqs)
    /\ _subscriptions' =
           SetSubscription(_subscriptions,
                           SubscriptionKey(SubscribeMethod(method), params), callback)
    /\ \E id \in FreeIds(_requests) :
           DoRequest("subscribe", SubscribeMethod(method), params, callback, id)
    /\ UNCHANGED <<wsState, connected, gates, _pingInterval, timers, cbLog>>

Unsubscribe(method, params) ==
    /\ Len(reqs) < MaxReq
    /\ _subscriptions' =
           DeleteSubscription(_subscriptions,
                              SubscriptionKey(SubscribeMethod(method), params))
    /\ \E id \in FreeIds(_requests) :
           DoRequest("unsubscribe", UnsubscribeMethod(SubscribeMethod(method)),
                     params, 0, id)
    /\ UNCHANGED <<wsState, connected, gates, _pingInterval, timers, cbLog>>

\* the interval callback () => this.request('server.ping')
Ping ==
    /\ _pingInterval \in timers
    /\ Len(reqs) < MaxReq
    /\ \E id \in FreeIds(_requests) : DoRequest("ping", <<"server.ping">>, <<>>, 0, id)
    /\ UNCHANGED <<wsState, connected, gates, _pingInterval, timers,
                   _subscriptions, cbLog>>

(***************************************************************************)
(* Socket events.                                                          *)
(***************************************************************************)
\* the requests suspended at `await this._connected` on the given gate, in call order
Waiting(rs, gate) ==
    LET IsWaiting(n) == rs[n].stage = "awaiting" /\ rs[n].gate = gate
    IN  SelectSeq([n \in 1..Len(rs) |-> n], IsWaiting)

\* the continuations released by this._connectedResolver(): each one sends
ReleaseAll(rs, gate) ==
    [n \in 1..Len(rs) |->
        IF rs[n].stage = "awaiting" /\ rs[n].gate = gate
        THEN [rs[n] EXCEPT !.stage = "sent"]
        ELSE rs[n]]

\* (mutation) the resolver releases only the first suspended request
SendFirst(sock, rs, gate) ==
    sock \o (IF Waiting(rs, gate) = <<>> THEN <<>> ELSE <<Head(Waiting(rs, gate))>>)

SendAll(sock, rs, gate) == sock \o Waiting(rs, gate)

\* the constructor opens the only socket the object ever has: it opens at most
\* once, and only from "connecting"
_onOpen ==
    /\ wsState = "connecting"
    /\ wsState' = "open"
    /\ gates' = [gates EXCEPT ![connected] = "resolved"]
    /\ reqs' = ReleaseAll(reqs, connected)
    /\ socket' = SendAll(socket, reqs, connected)
    /\ _pingInterval' = 1
    /\ timers' = timers \cup {1}
    /\ released' = {Waiting(reqs, connected)[i] : i \in 1..Len(Waiting(reqs, connected))}
    /\ UNCHANGED <<connected, _requests, _subscriptions, cbLog, wallet, inProgress>>

\* this._connectedRejector(): the await of a still pending gate throws, so the
\* suspended request() calls end without sending
RejectGate(gateStates, gate) ==
    IF gateStates[gate] = "pending"
    THEN [gateStates EXCEPT ![gate] = "rejected"]
    ELSE gateStates

\* (mutation) the close rejects every unsettled request
RejectInFlight(rs, gateStates, gate) ==
    [n \in 1..Len(rs) |->
        IF rs[n].state = "pending" THEN [rs[n] EXCEPT !.state = "rejected"] ELSE rs[n]]

CloseRequests(rs, gateStates, gate) ==
    [n \in 1..Len(rs) |->
        IF rs[n].stage = "awaiting" /\ rs[n].gate = gate /\ gateStates[gate] = "pending"
        THEN [rs[n] EXCEPT !.stage = "aborted"]
        ELSE rs[n]]

\* (mutation) the keepalive timer is left armed
KeepInterval(armed, timer) == armed

\* clearInterval(this._pingInterval)
ClearInterval(armed, timer) == armed \ {timer}

_onClose ==
    /\ wsState \in {"connecting", "open"}
    /\ wsState' = "closed"
    /\ reqs' = CloseRequests(reqs, gates, connected)
    /\ gates' = Append(RejectGate(gates, connected), "pending")
    /\ connected' = Len(gates) + 1
    /\ timers' = ClearInterval(timers, _pingInterval)
    /\ released' = {}
    /\ UNCHANGED <<_pingInterval, _requests, _subscriptions, socket, cbLog, wallet, inProgress>>

\* callbacks.resolve(value) / callbacks.reject(reason): a promise settles once
SettlePromise(r, state, value) ==
    [r EXCEPT !.calls = @ + 1,
              !.state = IF r.state = "pending" THEN state ELSE @,
              !.value = IF r.state = "pending" THEN value ELSE @]

\* new Error(response.error || 'No result')
RejectReason(m) ==
    IF m.error # {} /\ Truthy(The(m.error)) THEN The(m.error)
    ELSE StringValue(<<"No result">>)

\* if ("result" in response) callbacks.resolve(...) else callbacks.reject(...)
Settle(r, m) ==
    IF m.result # {}
    THEN SettlePromise(r, "resolved", The(m.result))
    ELSE SettlePromise(r, "rejected", RejectReason(m))

\* 'id' in response && this._requests.has(response.id)
Matches(requests, m) == m.id # {} /\ The(m.id) \in DOMAIN requests

\* 'method' in response && response.method.endsWith('subscribe')
IsPush(m) == m.method # {} /\ EndsWithSubscribe(The(m.method))

\* (mutation) a push is routed by its method alone, whatever its parameter
PushTargetByMethod(subscriptions, m) ==
    IF IsPush(m) /\ m.params # {}
    THEN {subscriptions[k] : k \in {k \in DOMAIN subscriptions :
              /\ Len(k) >= Len(The(m.method))
              /\ SubSeq(k, 1, Len(The(m.method))) = The(m.method)}}
    ELSE {}

\* the callback the push is routed to, if any; params[0] of a message without
\* params throws, which ends the handler
PushTarget(subscriptions, m) ==
    IF IsPush(m) /\ m.params # {}
          /\ SubscriptionKey(The(m.method), The(m.params)) \in DOMAIN subscriptions
    THEN {subscriptions[SubscriptionKey(The(m.method), The(m.params))]}
    ELSE {}

\* callback(...params)
PushCalls(subscriptions, m) ==
    IF PushTarget(subscriptions, m) # {}
    THEN <<[callback |-> The(PushTarget(subscriptions, m)), args |-> The(m.params),
            via |-> "push", req |-> 0]>>
    ELSE <<>>

\* (mutation) the callback runs however the request's promise is settled
InitialCallsOnSettle(before, after, n) ==
    IF /\ before.kind = "subscribe" /\ before.stage = "sent"
       /\ before.state = "pending" /\ after.state # "pending"
    THEN <<[callback |-> before.callback, args |-> <<after.value>>,
            via |-> "initial", req |-> n]>>
    ELSE <<>>

\* callback(await this.request(method, ...params)) in subscribe(): runs in a
\* microtask once the request's promise is resolved
InitialCalls(before, after, n) ==
    IF /\ before.kind = "subscribe" /\ before.stage = "sent"
       /\ before.state = "pending" /\ after.state = "resolved"
    THEN <<[callback |-> before.callback, args |-> <<after.value>>,
            via |-> "initial", req |-> n]>>
    ELSE <<>>

\* (mutation) a callback invocation overtakes the ones made for earlier messages
DeliverFirst(log, calls) == calls \o log

\* callback(...params) runs inside the handler and the continuation of subscribe()
\* in the microtask after it: both before the next message event is dispatched
Deliver(log, calls) == log \o calls

\* a WebSocket delivers message events only between its open and close events
_onMessage(m) ==
    /\ wsState = "open"
    /\ LET hit == Matches(_requests, m)
           n == IF hit THEN _requests[The(m.id)] ELSE 0
           settled == IF hit THEN Settle(reqs[n], m) ELSE Undefined
           calls == PushCalls(_subscriptions, m)
                        \o (IF hit THEN InitialCalls(reqs[n], settled, n) ELSE <<>>)
       IN  /\ Len(cbLog) + Len(calls) <= MaxLog
           /\ _requests' = IF hit THEN Unregister(_requests, The(m.id)) ELSE _requests
           /\ reqs' = IF hit THEN [reqs EXCEPT ![n] = settled] ELSE reqs
           /\ cbLog' = Deliver(cbLog, calls)
           /\ released' = {}
    /\ UNCHANGED <<wsState, connected, gates, _pingInterval, timers,
                   _subscriptions, socket, wallet, inProgress>>

Next ==
    \/ \E method \in RequestMethods, params \in RequestParams : Request(method, params)
    \/ Ping
    \/ _onOpen
    \/ \E m \in ResponseMessages : _onMessage(m)
    \/ _onClose

\* the transport as used for plain requests and the keepalive
Spec == Init /\ [][Next]_vars

NextSub ==
    \/ \E method \in Methods, callback \in 1..MaxReq, params \in ParamLists :
           Subscribe(method, callback, params)
    \/ \E method \in Methods, params \in ParamLists : Unsubscribe(method, params)
    \/ _onOpen
    \/ \E m \in SubMessages : _onMessage(m)
    \/ _onClose

\* the transport as used for subscriptions
SpecSub == Init /\ [][NextSub]_vars

NextDispatch ==
    \/ \E method \in Methods, callback \in 1..MaxReq, params \in ParamLists :
           Subscribe(method, callback, params)
    \/ _onOpen
    \/ \E m \in DispatchMessages : _onMessage(m)
    \/ _onClose

\* the transport as it dispatches the envelopes a server can put on the socket
SpecDispatch == Init /\ [][NextDispatch]_vars

TypeOK ==
    /\ wsState \in {"connecting", "open", "closed"}
    /\ connected = Len(gates)
    /\ Len(reqs) <= MaxReq
    /\ Len(cbLog) <= MaxLog
    /\ DOMAIN _requests \subseteq Ids

(***************************************************************************)
(* Properties of the transport.                                            *)
(***************************************************************************)
\* the requests whose promise is unsettled and that were allocated the id
Unsettled(id) == {n \in 1..Len(reqs) : reqs[n].id = id /\ reqs[n].state = "pending"}

\* how often a request was written to the socket
Written(sock, n) == Cardinality({i \in 1..Len(sock) : sock[i] = n})

\* C1: the first response carrying the id of an unsettled request settles that
\* request's promise with one call of one continuation and removes the id from
\* _requests; a response whose id belongs to no unsettled request (a second
\* response with the same id) invokes no continuation and changes nothing.
C1_ResponseSettlesOnce ==
    [][UNCHANGED vars \/ \A m \in ResponseMessages :
          _onMessage(m) =>
              LET id == The(m.id)
              IN  IF Unsettled(id) # {}
                  THEN /\ \A n \in Unsettled(id) :
                              /\ reqs'[n].state # "pending"
                              /\ reqs'[n].calls = 1
                       /\ id \notin DOMAIN _requests'
                       /\ \A n \in 1..Len(reqs) : reqs'[n].calls <= 1
                  ELSE UNCHANGED transport]_vars

\* a request was resolved, its id is free again and the socket is still open,
\* so that a second response with that id can arrive
C1_Witness ==
    /\ wsState = "open"
    /\ \E n \in 1..Len(reqs) :
           /\ reqs[n].state = "resolved"
           /\ reqs[n].calls = 1
           /\ reqs[n].id \notin DOMAIN _requests

\* C2: a response with id X settles only the request registered under X, with
\* the result the response carries, and leaves every other request as it was;
\* no two unsettled requests share an id.
C2_CorrelatedById ==
    [][/\ \A id \in Ids : Cardinality(Unsettled(id))' <= 1
       /\ UNCHANGED reqs \/ \A m \in ResponseMessages :
              _onMessage(m) =>
                  \A n \in 1..Len(reqs) :
                      IF reqs[n].id = The(m.id) /\ reqs[n].state = "pending"
                      THEN m.result # {} =>
                               /\ reqs'[n].state = "resolved"
                               /\ reqs'[n].value = The(m.result)
                      ELSE reqs'[n] = reqs[n]]_vars

\* two requests were pending together and the later one was answered first
C2_Witness ==
    \E n1, n2 \in 1..Len(reqs) :
        /\ n1 < n2
        /\ reqs[n1].stage = "sent" /\ reqs[n1].state = "pending"
        /\ reqs[n2].stage = "sent" /\ reqs[n2].state = "resolved"
        /\ reqs[n1].id # reqs[n2].id

\* C3: nothing is written to the socket while the connection is connecting,
\* no request is ever written twice, and every request that passed the gate
\* of the connecting phase, the ones Open released included, has been written
\* exactly once.
C3_QueuedSentOnOpen ==
    /\ wsState = "connecting" => socket = <<>>
    /\ \A n \in 1..Len(reqs) :
           /\ Written(socket, n) <= 1
           /\ GateOpen(gates, reqs[n].gate) => Written(socket, n) = 1
    /\ \A n \in released : reqs[n].stage = "sent" /\ Written(socket, n) = 1

\* Open has just released two requests that were queued while connecting
C3_Witness ==
    /\ wsState = "open"
    /\ released = {1, 2}
    /\ socket = <<1, 2>>

\* C4: the matching response rejects the request whenever it carries an error
\* field or omits result, and resolves it only when it has a result and no
\* error field.
C4_RejectOnErrorField ==
    [][\A m \in ResponseMessages :
          _onMessage(m) =>
              \A n \in Unsettled(The(m.id)) :
                  reqs'[n].state = IF m.error # {} \/ m.result = {}
                                   THEN "rejected"
                                   ELSE "resolved"]_vars

\* C5: in the close step and in every step after it, a request that was
\* already sent keeps its promise state, its value and its single write to
\* the socket: the close neither settles nor re-sends it.
C5_SentUntouchedByClose ==
    [][wsState' = "closed" =>
          \A n \in 1..Len(reqs) :
              reqs[n].stage = "sent" =>
                  /\ reqs'[n] = reqs[n]
                  /\ Written(socket', n) = Written(socket, n)]_vars

\* the connection closed while a sent request was still unanswered
C5_Witness ==
    /\ wsState = "closed"
    /\ \E n \in 1..Len(reqs) :
           /\ reqs[n].stage = "sent"
           /\ reqs[n].state = "pending"
           /\ Written(socket, n) = 1

\* C6: after the close the pending map holds no entry registered before it.
C6_ClosedDropsPending ==
    wsState = "closed" =>
        \A id \in DOMAIN _requests : reqs[_requests[id]].gate = connected

\* C7: once closed, the gate is a fresh unresolved one, the keepalive timer is
\* not armed, every request issued since the close is registered, suspended
\* and unwritten and is no ping, and everything on the socket was written
\* before the close.
C7_NothingSentAfterClose ==
    wsState = "closed" =>
        /\ gates[connected] = "pending"
        /\ _pingInterval \notin timers
        /\ \A n \in 1..Len(reqs) :
               reqs[n].gate = connected =>
                   /\ reqs[n].kind # "ping"
                   /\ reqs[n].stage = "awaiting"
                   /\ Written(socket, n) = 0
                   /\ reqs[n].id \in DOMAIN _requests
                   /\ _requests[reqs[n].id] = n
        /\ \A i \in 1..Len(socket) : reqs[socket[i]].gate # connected

\* the keepalive had sent a ping, the connection closed, and a request was
\* issued afterwards
C7_Witness ==
    /\ wsState = "closed"
    /\ \E n1, n2 \in 1..Len(reqs) :
           /\ reqs[n1].kind = "ping" /\ Written(socket, n1) = 1
           /\ reqs[n2].kind = "request" /\ reqs[n2].gate = connected

\* the routing key a subscribe or unsubscribe call computed
CallKey(r) ==
    IF r.kind = "subscribe"
    THEN SubscriptionKey(r.method, r.params)
    ELSE SubscriptionKey(SubSeq(r.method, 1, Len(r.method) - 3), r.params)

\* the subscribe and unsubscribe calls made so far
SubscriptionCalls ==
    {n \in 1..Len(reqs) : reqs[n].kind \in {"subscribe", "unsubscribe"}}

\* the subscribe and unsubscribe calls made for a routing key
CallsFor(key) == {n \in SubscriptionCalls : CallKey(reqs[n]) = key}

Latest(S) == CHOOSE n \in S : \A k \in S : k <= n

\* how often the callback of subscribe call n received the initial result
InitialCount(n) ==
    Cardinality({i \in 1..Len(cbLog) : cbLog[i].via = "initial" /\ cbLog[i].req = n})

\* C8: a push invokes a callback only if the key recomputed from its method
\* and first parameter is a key of the subscription map, and then exactly the
\* callback stored under that key, with the pushed params; any other push
\* invokes nothing; no push changes the subscription map or the pending map.
C8_PushRoutedByKey ==
    [][UNCHANGED vars \/ \A m \in PushMessages :
          _onMessage(m) =>
              /\ _subscriptions' = _subscriptions
              /\ _requests' = _requests
              /\ reqs' = reqs
              /\ IF /\ EndsWithSubscribe(The(m.method))
                    /\ m.params # {}
                    /\ SubscriptionKey(The(m.method), The(m.params)) \in DOMAIN _subscriptions
                 THEN cbLog' = Append(cbLog,
                          [callback |-> _subscriptions[SubscriptionKey(The(m.method),
                                                                       The(m.params))],
                           args |-> The(m.params), via |-> "push", req |-> 0])
                 ELSE cbLog' = cbLog]_vars

\* two keys are registered and a push was delivered to the callback of one
C8_Witness ==
    /\ Cardinality(DOMAIN _subscriptions) = 2
    /\ \E i \in 1..Len(cbLog), k \in DOMAIN _subscriptions :
           /\ cbLog[i].via = "push"
           /\ cbLog[i].callback = _subscriptions[k]
           /\ \E other \in DOMAIN _subscriptions : _subscriptions[other] # cbLog[i].callback

\* C9: from the moment subscribe has run, also while its request is still
\* suspended at the gate, its callback is stored under its routing key (until a
\* later subscribe or unsubscribe for that key); the callback received the
\* initial result once if the request was resolved, with the resolved value,
\* and never if the request is unsettled or rejected.
C9_InitialResultOnce ==
    \A n \in 1..Len(reqs) :
        reqs[n].kind = "subscribe" =>
            /\ Latest(CallsFor(CallKey(reqs[n]))) = n =>
                   /\ CallKey(reqs[n]) \in DOMAIN _subscriptions
                   /\ _subscriptions[CallKey(reqs[n])] = reqs[n].callback
            /\ InitialCount(n) = IF Outer(reqs[n]) = "resolved" THEN 1 ELSE 0
            /\ \A i \in 1..Len(cbLog) :
                   (cbLog[i].via = "initial" /\ cbLog[i].req = n) =>
                       /\ cbLog[i].callback = reqs[n].callback
                       /\ cbLog[i].args = <<reqs[n].value>>

\* a push reached the callback of a subscribe call first, then the initial result
C9_Witness ==
    \E n \in 1..Len(reqs) :
        /\ reqs[n].kind = "subscribe"
        /\ reqs[n].state = "resolved"
        /\ Len(cbLog) = 2
        /\ cbLog[1].via = "push" /\ cbLog[1].callback = reqs[n].callback
        /\ cbLog[2].via = "initial" /\ cbLog[2].req = n

\* C10: a routing key is in the subscription map exactly when the latest
\* subscribe or unsubscribe call for that key was a subscribe, and it then
\* holds that call's callback: no response, push, Open or Close removes an
\* entry, and unsubscribe removes the entry of its own key only; every
\* unsubscribe call issued one request (for the subscribe method with
\* ".unsubscribe" appended), registered until answered and written to the
\* socket at most once.
C10_OnlyUnsubscribeRemoves ==
    /\ \A key \in DOMAIN _subscriptions \cup {CallKey(reqs[n]) : n \in SubscriptionCalls} :
           IF CallsFor(key) # {} /\ reqs[Latest(CallsFor(key))].kind = "subscribe"
           THEN /\ key \in DOMAIN _subscriptions
                /\ _subscriptions[key] = reqs[Latest(CallsFor(key))].callback
           ELSE key \notin DOMAIN _subscriptions
    /\ \A n \in 1..Len(reqs) :
           reqs[n].kind = "unsubscribe" =>
               /\ \E method \in Methods :
                      reqs[n].method = UnsubscribeMethod(SubscribeMethod(method))
               /\ Written(socket, n) = IF reqs[n].stage = "sent" THEN 1 ELSE 0
               /\ reqs[n].state = "pending" =>
                      /\ reqs[n].id \in DOMAIN _requests
                      /\ _requests[reqs[n].id] = n

\* a subscription was removed by a later unsubscribe for its key
C10_Witness ==
    \E n1, n2 \in 1..Len(reqs) :
        /\ n1 < n2
        /\ reqs[n1].kind = "subscribe" /\ reqs[n2].kind = "unsubscribe"
        /\ CallKey(reqs[n1]) = CallKey(reqs[n2])
        /\ CallKey(reqs[n1]) \notin DOMAIN _subscriptions

\* the pushed params the callbacks registered for a routing key received, in order
Delivered(log, key) ==
    LET ForKey(call) == call.via = "push" /\ CallKey(reqs[call.callback]) = key
        calls == SelectSeq(log, ForKey)
    IN  [i \in 1..Len(calls) |-> calls[i].args]

\* C11: no message both settles a pending request and is routed to a
\* subscription callback.
C11_OnePathPerMessage ==
    [][\A m \in DispatchMessages :
          _onMessage(m) =>
              ~ /\ reqs' # reqs
                /\ \E i \in Len(cbLog) + 1..Len(cbLog') : cbLog'[i].via = "push"]_vars

\* C12: a push for a registered routing key is handed to the callback inside
\* the step in which it arrives, once, after every push delivered for that key
\* before; the deliveries made for the other keys are as they were, and no step
\* reorders or retracts a delivery.
C12_PushesInArrivalOrder ==
    [][UNCHANGED vars \/
       /\ \A n \in SubscriptionCalls :
              LET key == CallKey(reqs[n])
              IN  /\ Len(Delivered(cbLog', key)) >= Len(Delivered(cbLog, key))
                  /\ SubSeq(Delivered(cbLog', key), 1, Len(Delivered(cbLog, key)))
                         = Delivered(cbLog, key)
       /\ \A m \in StatusPushes \cup MixedMessages :
              _onMessage(m) =>
                  \A n \in SubscriptionCalls :
                      LET key == CallKey(reqs[n])
                      IN  Delivered(cbLog', key) =
                              IF key = SubscriptionKey(The(m.method), The(m.params))
                                     /\ key \in DOMAIN _subscriptions
                              THEN Append(Delivered(cbLog, key), The(m.params))
                              ELSE Delivered(cbLog, key)]_vars

\* two pushes with different statuses arrived for one routing key
C12_Witness ==
    /\ Len(cbLog) = 2
    /\ cbLog[1].via = "push" /\ cbLog[2].via = "push"
    /\ cbLog[1].callback = cbLog[2].callback
    /\ cbLog[1].args # cbLog[2].args

(***************************************************************************)
(* The wallet: address discovery (watch.accountExtPubKey), the ledger      *)
(* this.txs and the server's view of the addresses.  A call of the facade  *)
(* (ElectrumApi.getHistory) is one suspension of the caller: the requests  *)
(* it makes are answered between the step that starts it and the step that *)
(* resumes the caller.                                                     *)
(***************************************************************************)
\* the account keys the user can load; 0 stands for null
Keys == {1, 2}

\* derive(0) for external addresses, derive(1) for internal addresses
Chains == {0, 1}

\* xPub.derive(chain).derive(index), as script and address
Address(xPub, chain, index) == <<xPub, chain, index>>

\* the transaction that pays to an address
Funding(address) == <<"f">> \o address

\* getBlockHeader(height) as decoded from the raw header
BlockHeader(height) ==
    [blockHash |-> <<"block", height>>, blockHeight |-> height, timestamp |-> height + 1000]

\* plain.block_time and plain.block_hash of a record with the header of its
\* block attached; 0 and <<>> stand for null, the values without a header
BlockTime(height) == IF height > 0 THEN BlockHeader(height).timestamp ELSE 0
BlockHash(height) == IF height > 0 THEN BlockHeader(height).blockHash ELSE <<>>

\* transactionToPlain: the record of the transaction funding an address;
\* block_height 0 with block_hash <<>> stands for null
PlainTransaction(address, height) ==
    [txid |-> Funding(address), block_height |-> height,
     block_time |-> BlockTime(height), block_hash |-> BlockHash(height),
     inputs |-> <<>>,
     outputs |-> <<[address |-> address, value |-> 10, index |-> 0]>>]

\* the transaction that spends what was paid to an address
Spending(address) == <<"s">> \o address

\* the change address of a key: its first internal address
Change(xPub) == Address(xPub, 1, 0)

\* transactionToPlain: the record of the transaction that spends output 0 of
\* the funding transaction of an address and pays the change address
PlainSpend(address, height) ==
    [txid |-> Spending(address), block_height |-> height,
     block_time |-> BlockTime(height), block_hash |-> BlockHash(height),
     inputs |-> <<[txid |-> Funding(address), output_index |-> 0]>>,
     outputs |-> <<[address |-> Change(address[1]), value |-> 9, index |-> 0]>>]

\* the addresses of one key that may have a history
UsedAddresses(xPub) == {Address(xPub, c, i) : c \in Chains, i \in 0..MaxUsed - 1}

\* blockchain.scripthash.get_history as the server answers it
Receipts(address) == IF address \in DOMAIN history THEN history[address] ELSE <<>>

\* { scriptPubKey, address, index, active: false }
NewAddressInfo(xPub, chain, index) ==
    [xPub |-> xPub, chain |-> chain, index |-> index, active |-> FALSE]

\* the position of the first inactive entry of an array at or after pos, or 0:
\* `if (addressInfo.active) continue;`
RECURSIVE NextInactive(_, _, _)
NextInactive(array, objects, pos) ==
    IF pos > Len(array) THEN 0
    ELSE IF ~objects[array[pos]].active THEN pos
    ELSE NextInactive(array, objects, pos + 1)

\* A watcher invocation is suspended at `await this.updateAddressInfoActivity`
\* of the for-of loop (pc "rescan") or of the while loop (pc "derive"), or it
\* has returned ("done") or thrown ("failed").  arr and pos are the array
\* object and position of the for-of iterator, gap is inactiveAddressGapWidth,
\* info the AddressInfo object handed to updateAddressInfoActivity.
Suspended(pc, xPub, chain, arr, pos, gap, info) ==
    [pc |-> pc, xPub |-> xPub, chain |-> chain, arr |-> arr, pos |-> pos,
     gap |-> gap, info |-> info]

\* The watcher from the top of a for-of loop up to its next await: the rest of
\* the for-of loop of a chain, its while loop, and then the loops of the
\* internal chain.  lists gives the array this.ext_addresses or
\* this.int_addresses refers to; the result is the invocation as suspended and
\* the AddressInfo objects, with the one the while loop has created.
RECURSIVE Scan(_, _, _, _, _, _, _, _)
Scan(xPub, chain, arr, pos, gap, lists, heap, objects) ==
    LET p == IF arr = 0 THEN 0 ELSE NextInactive(heap[arr], objects, pos)
    IN  IF p # 0
        THEN [run |-> Suspended("rescan", xPub, chain, arr, p, gap, heap[arr][p]),
              infos |-> objects]
        ELSE IF gap < INACTIVE_ADDRESS_GAP
        THEN [run |-> Suspended("derive", xPub, chain, 0, 0, gap, Len(objects) + 1),
              infos |-> Append(objects,
                               NewAddressInfo(xPub, chain, Len(heap[lists[chain]])))]
        ELSE IF chain = 0
        THEN Scan(xPub, 1, lists[1], 1, 0, lists, heap, objects)
        ELSE [run |-> Suspended("done", 0, 0, 0, 0, 0, 0), infos |-> objects]

\* the watcher is called with the new and the old value of the computed key;
\* if (oldXPub !== null) both lists and the ledger are replaced by empty ones
Watch(xPub) ==
    /\ xPub # accountExtPubKey
    /\ Len(runs) < MaxRuns
    /\ accountExtPubKey' = xPub
    /\ IF xPub = 0
       THEN UNCHANGED <<ext_addresses, int_addresses, arrays, infos, txs, runs>>
       ELSE LET reset == accountExtPubKey # 0
                heap == IF reset THEN arrays \o << <<>>, <<>> >> ELSE arrays
                lists == IF reset
                         THEN (0 :> Len(arrays) + 1) @@ (1 :> Len(arrays) + 2)
                         ELSE (0 :> ext_addresses) @@ (1 :> int_addresses)
                next == Scan(xPub, 0, lists[0], 1, 0, lists, heap, infos)
            IN  /\ arrays' = heap
                /\ ext_addresses' = lists[0]
                /\ int_addresses' = lists[1]
                /\ txs' = IF reset THEN <<>> ELSE txs
                /\ infos' = next.infos
                /\ runs' = Append(runs, next.run)
    /\ UNCHANGED <<INACTIVE_ADDRESS_GAP, history, blocks, transport, released, inProgress>>

\* the record a batch holds for an id: the last one wins in txsObj[tx.txid] = tx
LastRecord(records, id) ==
    records[CHOOSE i \in 1..Len(records) :
                /\ records[i].txid = id
                /\ \A j \in i + 1..Len(records) : records[j].txid # id]

\* the ids of the records of a batch
BatchIds(records) == {records[i].txid : i \in 1..Len(records)}

\* (mutation) the spread is the other way round: {...txsObj, ...this.txs}
IngestKeepOld(ledger, records) ==
    [id \in DOMAIN ledger \cup BatchIds(records) |->
        IF id \in DOMAIN ledger THEN ledger[id] ELSE LastRecord(records, id)]

\* this.txs = {...this.txs, ...txsObj} with txsObj[tx.txid] = tx
Ingest(ledger, records) ==
    [id \in DOMAIN ledger \cup BatchIds(records) |->
        IF id \in BatchIds(records) THEN LastRecord(records, id) ELSE ledger[id]]

\* the height the server has for a transaction, 0 while it is unconfirmed
HeightOf(txid) == IF txid \in DOMAIN blocks THEN blocks[txid] ELSE 0

\* getTransaction(tx_hash, height) with the header of that height attached
TransactionAt(txid, height) ==
    IF Head(txid) = "f"
    THEN PlainTransaction(Tail(txid), height)
    ELSE PlainSpend(Tail(txid), height)

\* the record of a transaction with the header of its present block
Transaction(txid) == TransactionAt(txid, HeightOf(txid))

\* the sort key (b.height || Number.MAX_SAFE_INTEGER): 0 for an unconfirmed
\* receipt, which sorts before every height
Before(txid1, txid2) ==
    HeightOf(txid2) # 0 /\ (HeightOf(txid1) = 0 \/ HeightOf(txid1) > HeightOf(txid2))

\* history.sort(...): a stable sort, newest first
RECURSIVE Sorted(_)
Sorted(receipts) ==
    IF receipts = <<>> THEN <<>>
    ELSE LET last == receipts[Len(receipts)]
             rest == Sorted(SubSeq(receipts, 1, Len(receipts) - 1))
             IsBefore(txid) == ~Before(last, txid)
             IsAfter(txid) == Before(last, txid)
         IN  SelectSeq(rest, IsBefore) \o <<last>> \o SelectSeq(rest, IsAfter)

\* ElectrumApi.getHistory: the records of the sorted receipts, up to the first
\* transaction fetch that fails (fetched = the number that succeeded)
History(address, fetched) ==
    [i \in 1..fetched |-> Transaction(Sorted(Receipts(address))[i])]

\* (mutation) the new entry replaces the last one of the list
ReplaceLast(array, info) ==
    IF array = <<>> THEN <<info>> ELSE [array EXCEPT ![Len(array)] = info]

\* this.ext_addresses.push(addressInfo)
Push(array, info) == Append(array, info)

\* addressInfo.active = txCount > 0
SetActive(object, txCount) == [object EXCEPT !.active = txCount > 0]

\* (mutation) the counter starts again at every active address
GapWidthTrailing(gap, object) == IF object.active THEN 0 ELSE gap + 1

\* (mutation) every classified address counts, active or not
GapWidthCountAll(gap, object) == gap + 1

\* if (!addressInfo.active) inactiveAddressGapWidth++
GapWidth(gap, object) == IF object.active THEN gap ELSE gap + 1

\* The awaited updateAddressInfoActivity of run r returns: fetchTxHistory merges
\* the records into the ledger, the flag is written, and the watcher goes on
\* to its next await.
Resume(r, fetched) ==
    LET run == runs[r]
        object == infos[run.info]
        records == History(Address(object.xPub, object.chain, object.index), fetched)
        objects == [infos EXCEPT ![run.info] = SetActive(object, Len(records))]
        gap == GapWidth(run.gap, objects[run.info])
        lists == (0 :> ext_addresses) @@ (1 :> int_addresses)
        heap == IF run.pc = "derive"
                THEN [arrays EXCEPT ![lists[run.chain]] = Push(@, run.info)]
                ELSE arrays
        next == IF run.pc = "rescan" /\ gap < INACTIVE_ADDRESS_GAP
                THEN Scan(run.xPub, run.chain, run.arr, run.pos + 1, gap,
                          lists, heap, objects)
                ELSE Scan(run.xPub, run.chain, 0, 0, gap, lists, heap, objects)
    IN  /\ txs' = Ingest(txs, records)
        /\ arrays' = heap
        /\ infos' = next.infos
        /\ runs' = [runs EXCEPT ![r] = next.run]
        /\ UNCHANGED <<INACTIVE_ADDRESS_GAP, accountExtPubKey, ext_addresses,
                       int_addresses, history, blocks, transport, released, inProgress>>

\* the history fetch of run r is answered in full
FetchReturns(r) ==
    /\ r \in 1..Len(runs)
    /\ runs[r].pc \in {"rescan", "derive"}
    /\ LET object == infos[runs[r].info]
       IN  Resume(r, Len(Receipts(Address(object.xPub, object.chain, object.index))))

\* a transaction fetch of getHistory fails: the records fetched before it are
\* returned (`catch (error) { ...; return txs; }`)
FetchCutShort(r, fetched) ==
    /\ r \in 1..Len(runs)
    /\ runs[r].pc \in {"rescan", "derive"}
    /\ LET object == infos[runs[r].info]
       IN  fetched < Len(Receipts(Address(object.xPub, object.chain, object.index)))
    /\ Resume(r, fetched)

\* the addresses the wallet has derived so far
Derived == {Address(infos[k].xPub, infos[k].chain, infos[k].index) : k \in 1..Len(infos)}

\* the server learns of a transaction that pays to a derived address
Pay(address) ==
    /\ address \in Derived
    /\ address[3] < MaxUsed
    /\ address \notin DOMAIN history
    /\ Cardinality(DOMAIN history) < MaxPaid
    /\ history' = (address :> <<Funding(address)>>) @@ history
    /\ UNCHANGED <<INACTIVE_ADDRESS_GAP, accountExtPubKey, ext_addresses, int_addresses,
                   arrays, infos, txs, runs, blocks, transport, released, inProgress>>

\* the server's histories with the transaction that spends what an address
\* received and pays the change address
Spent(address) ==
    [a \in DOMAIN history \cup {Change(address[1])} |->
        IF a = address THEN Append(history[a], Spending(address))
        ELSE IF a \in DOMAIN history THEN history[a]
        ELSE <<Spending(address)>>]

\* the server learns of a transaction that spends what a derived address
\* received and pays the change address of the key
Spend(address) ==
    /\ address \in DOMAIN history
    /\ address # Change(address[1])
    /\ history[address] = <<Funding(address)>>
    /\ history' = Spent(address)
    /\ UNCHANGED <<INACTIVE_ADDRESS_GAP, accountExtPubKey, ext_addresses, int_addresses,
                   arrays, infos, txs, runs, blocks, transport, released, inProgress>>

\* the height of the block transactions are mined in
Height == 500

\* the transactions the server has for derived addresses
Known == UNION {{history[a][i] : i \in 1..Len(history[a])} : a \in DOMAIN history}

\* the server sees a transaction confirmed
Mine(txid) ==
    /\ txid \in Known
    /\ txid \notin DOMAIN blocks
    /\ blocks' = (txid :> Height) @@ blocks
    /\ UNCHANGED <<INACTIVE_ADDRESS_GAP, accountExtPubKey, ext_addresses, int_addresses,
                   arrays, infos, txs, runs, history, transport, released, inProgress>>

\* array.find(addrInfo => addrInfo.address === address): the position of the
\* first match, or 0
Find(array, objects, address) ==
    IF \E i \in 1..Len(array) :
           Address(objects[array[i]].xPub, objects[array[i]].chain,
                   objects[array[i]].index) = address
    THEN CHOOSE i \in 1..Len(array) :
             /\ Address(objects[array[i]].xPub, objects[array[i]].chain,
                        objects[array[i]].index) = address
             /\ \A j \in 1..i - 1 :
                    Address(objects[array[j]].xPub, objects[array[j]].chain,
                            objects[array[j]].index) # address
    ELSE 0

\* the AddressInfo object addTransaction marks for an output address: the
\* match in ext_addresses, otherwise the match in int_addresses, otherwise 0
Owner(address) ==
    IF Find(arrays[ext_addresses], infos, address) # 0
    THEN arrays[ext_addresses][Find(arrays[ext_addresses], infos, address)]
    ELSE IF Find(arrays[int_addresses], infos, address) # 0
    THEN arrays[int_addresses][Find(arrays[int_addresses], infos, address)]
    ELSE 0

\* this.$set(this.txs, tx.txid, tx)
Set(ledger, tx) == (tx.txid :> tx) @@ ledger

\* (mutation) every entry is marked, whatever the outputs pay
addTransactionMarkAll(tx) ==
    /\ infos' = [k \in 1..Len(infos) |-> [infos[k] EXCEPT !.active = TRUE]]
    /\ txs' = Set(txs, tx)

\* addTransaction(tx): the owners of its outputs are marked, the record is stored
addTransaction(tx) ==
    /\ infos' = [k \in 1..Len(infos) |->
                     IF \E i \in 1..Len(tx.outputs) : Owner(tx.outputs[i].address) = k
                     THEN [infos[k] EXCEPT !.active = TRUE]
                     ELSE infos[k]]
    /\ txs' = Set(txs, tx)

\* addTransaction is called with the record of a transaction the server has
TransactionAdded(tx) ==
    /\ tx.txid \in Known
    /\ addTransaction(tx)
    /\ UNCHANGED <<INACTIVE_ADDRESS_GAP, accountExtPubKey, ext_addresses, int_addresses,
                   arrays, runs, history, blocks, transport, released, inProgress>>

InitWallet ==
    /\ Constructor
    /\ data
    /\ INACTIVE_ADDRESS_GAP = 1
    /\ history = <<>>
    /\ blocks = <<>>

NextWallet ==
    \/ \E xPub \in {0} \cup Keys : Watch(xPub)
    \/ \E r \in 1..MaxRuns : FetchReturns(r)
    \/ \E r \in 1..MaxRuns, fetched \in 0..MaxUsed : FetchCutShort(r, fetched)
    \/ \E xPub \in Keys : \E address \in UsedAddresses(xPub) : Pay(address)
    \/ \E xPub \in Keys : \E address \in UsedAddresses(xPub) :
           TransactionAdded(Transaction(Funding(address)))

\* the wallet with key changes, overlapping discovery runs, failing
\* transaction fetches and transactions arriving from the server
SpecWallet == InitWallet /\ [][NextWallet]_vars

\* the transactions of the addresses of key 1
Transactions == {Funding(a) : a \in UsedAddresses(1)} \cup {Spending(a) : a \in UsedAddresses(1)}

NextLedger ==
    \/ \E xPub \in {0, 1} : Watch(xPub)
    \/ \E r \in 1..MaxRuns : FetchReturns(r)
    \/ \E r \in 1..MaxRuns, fetched \in 0..MaxUsed : FetchCutShort(r, fetched)
    \/ \E address \in UsedAddresses(1) : Pay(address)
    \/ \E address \in UsedAddresses(1) : Spend(address)
    \/ \E txid \in Transactions : Mine(txid)
    \/ \E txid \in Transactions : TransactionAdded(Transaction(txid))

\* the ledger of one account while its transactions arrive and are confirmed
SpecLedger == InitWallet /\ [][NextLedger]_vars

(***************************************************************************)
(* The unspent outputs: computed.utxos.                                    *)
(***************************************************************************)
\* the members of a finite set, one after the other
RECURSIVE Enumerate(_)
Enumerate(S) ==
    IF S = {} THEN <<>>
    ELSE LET x == CHOOSE y \in S : TRUE IN <<x>> \o Enumerate(S \ {x})

\* list.concat(...) over the elements of a sequence of sequences
RECURSIVE Concat(_)
Concat(lists) == IF lists = <<>> THEN <<>> ELSE Head(lists) \o Concat(Tail(lists))

\* records.sort by (block_time || Number.MAX_SAFE_INTEGER), descending: the
\* unconfirmed records first; the height stands for the time of the block
RECURSIVE SortedRecords(_)
SortedRecords(records) ==
    IF records = <<>> THEN <<>>
    ELSE LET last == records[Len(records)]
             rest == SortedRecords(SubSeq(records, 1, Len(records) - 1))
             Later(tx) == tx.block_height # 0
                              /\ (last.block_height = 0
                                     \/ last.block_height > tx.block_height)
             Earlier(tx) == ~Later(tx)
         IN  SelectSeq(rest, Earlier) \o <<last>> \o SelectSeq(rest, Later)

\* Object.values(this.txs).sort(...)
txsArray == SortedRecords([i \in 1..Cardinality(DOMAIN txs) |-> txs[Enumerate(DOMAIN txs)[i]]])

\* (mutation) an input is recognised by the id of the transaction it spends from
InputKeyTxOnly(input) == input.txid

\* `${input.txid}:${input.output_index}`
InputKey(input) == input.txid \o <<":", input.output_index>>

\* `${output.txid}:${output.index}`
OutputKey(output) == output.txid \o <<":", output.index>>

\* the flat array of the keys of all inputs
SpentKeys ==
    Concat([i \in 1..Len(txsArray) |->
               [j \in 1..Len(txsArray[i].inputs) |-> InputKey(txsArray[i].inputs[j])]])

\* the flat array of all outputs, each with the txid of its record
AllOutputs ==
    Concat([i \in 1..Len(txsArray) |->
               [j \in 1..Len(txsArray[i].outputs) |->
                   [address |-> txsArray[i].outputs[j].address,
                    value |-> txsArray[i].outputs[j].value,
                    index |-> txsArray[i].outputs[j].index,
                    txid |-> txsArray[i].txid]]])

\* this.ext_addresses.map(addressInfo => addressInfo.address), as a set
AddressesOf(array) ==
    {Address(infos[array[i]].xPub, infos[array[i]].chain, infos[array[i]].index) :
         i \in 1..Len(array)}

\* Array.includes
Includes(list, x) == \E i \in 1..Len(list) : list[i] = x

\* computed.utxos
utxos ==
    LET externalAddresses == AddressesOf(arrays[ext_addresses])
        internalAddresses == AddressesOf(arrays[int_addresses])
        inputs == SpentKeys
        outputs == AllOutputs
        Unspent(output) ==
            /\ output.address \in externalAddresses \cup internalAddresses
            /\ ~Includes(inputs, OutputKey(output))
        kept == SelectSeq(outputs, Unspent)
    IN  IF txsArray = <<>> THEN <<>>
        ELSE [i \in 1..Len(kept) |->
                 [hash |-> kept[i].txid, index |-> kept[i].index,
                  value |-> kept[i].value, address |-> kept[i].address,
                  isInternal |-> kept[i].address \in internalAddresses]]

\* the first external and the first internal address of key 1, and an address
\* of somebody else
Payees == {Address(1, 0, 0), Change(1), Address(0, 0, 0)}

\* tx.outs.map((output, index) => this.outputToPlain(output, index)): every
\* output carries its position
OutputLists ==
    UNION {[1..n -> Payees] : n \in 0..MaxOutputs}

\* the outputs an input can refer to
OutPoints ==
    {[txid |-> Funding(Address(1, 0, 0)), output_index |-> i] : i \in {0, 1}}

\* transactionToPlain: a record of inputs and of outputs at their positions
PlainRecord(txid, inputs, payees) ==
    [txid |-> txid, block_height |-> 0, block_time |-> 0, block_hash |-> <<>>,
     inputs |-> inputs,
     outputs |-> [j \in 1..Len(payees) |->
                     [address |-> payees[j], value |-> 10, index |-> j - 1]]]

\* the records of two transactions: one that spends an output of somebody else
\* and pays to any list of payees, and one that spends any outputs of the
\* first and pays to at most one payee
Records ==
    {PlainRecord(Funding(Address(1, 0, 0)),
                 <<[txid |-> Funding(Address(0, 0, 0)), output_index |-> 0]>>,
                 payees) : payees \in OutputLists}
    \cup
    {PlainRecord(Spending(Address(1, 0, 0)), Enumerate(S), payees) :
         S \in SUBSET OutPoints, payees \in {<<>>} \cup {<<a>> : a \in Payees}}

\* a wallet that has derived its first external and internal address and
\* listed none, one or both, and a server that knows two transactions
InitUtxo ==
    /\ Constructor
    /\ INACTIVE_ADDRESS_GAP = 1
    /\ signedTx = <<>>
    /\ head = [height |-> 0, timestamp |-> 0]
    /\ promises = {}
    /\ thrown = {}
    /\ accountExtPubKey = 1
    /\ infos = <<NewAddressInfo(1, 0, 0), NewAddressInfo(1, 1, 0)>>
    /\ \E ext \in {<<>>, <<1>>}, int \in {<<>>, <<2>>} : arrays = <<ext, int>>
    /\ ext_addresses = 1
    /\ int_addresses = 2
    /\ txs = <<>>
    /\ runs = <<>>
    /\ history = (Address(1, 0, 0) :> <<Funding(Address(1, 0, 0)),
                                        Spending(Address(1, 0, 0))>>)
    /\ blocks = <<>>

NextUtxo == \E tx \in Records : TransactionAdded(tx)

\* the ledger filled with any records, under any lists of owned addresses
SpecUtxo == InitUtxo /\ [][NextUtxo]_vars

(***************************************************************************)
(* Status pushes and broadcasts: onStatusChanged, updateTransaction,        *)
(* signTransaction, broadcastTransaction.  promises holds the calls of the  *)
(* facade that are under way; equal calls are one element.                  *)
(***************************************************************************)
\* the status of an address: the array of {tx_hash, height} of getReceipts
Status(address) ==
    [i \in 1..Len(Receipts(address)) |->
        [tx_hash |-> Receipts(address)[i], height |-> HeightOf(Receipts(address)[i])]]

\* knownTx.block_height !== entry.height; a block_height of null (a record
\* without block_hash) differs from every number
HeightDiffers(knownTx, entry) ==
    knownTx.block_hash = <<>> \/ knownTx.block_height # entry.height

\* a call of the facade that has not been answered
Promise(kind, tx_hash, height) == [kind |-> kind, tx_hash |-> tx_hash, height |-> height]

\* the block a confirmed transaction moves to when the chain is reorganised
Reorganised(height) == height + 1

\* the server sees a confirmed transaction in another block
Reorg(txid) ==
    /\ txid \in DOMAIN blocks
    /\ blocks[txid] = Height
    /\ blocks' = [blocks EXCEPT ![txid] = Reorganised(@)]
    /\ UNCHANGED <<INACTIVE_ADDRESS_GAP, accountExtPubKey, ext_addresses, int_addresses,
                   arrays, infos, txs, runs, history, transport, released, inProgress>>

\* the height a status gives each transaction it mentions
Pushed(status) ==
    [tx_hash \in {status[i].tx_hash : i \in 1..Len(status)} |->
        status[CHOOSE i \in 1..Len(status) : status[i].tx_hash = tx_hash].height]

\* onStatusChanged(status) for the status of a subscribed address: a fetch is
\* started for every unknown entry and for every entry whose height differs
onStatusChanged(address) ==
    /\ Owner(address) # 0
    /\ LET status == Status(address)
           newTxs == {i \in 1..Len(status) : status[i].tx_hash \notin DOMAIN txs}
           changedTxs == {i \in 1..Len(status) :
                             /\ status[i].tx_hash \in DOMAIN txs
                             /\ HeightDiffers(txs[status[i].tx_hash], status[i])}
       IN  promises' = promises
               \cup {Promise("getTransaction", status[i].tx_hash, status[i].height) :
                         i \in newTxs}
               \cup {Promise("getBlockHeader", status[i].tx_hash, status[i].height) :
                         i \in changedTxs}
    /\ pushed' = Pushed(Status(address)) @@ pushed
    /\ UNCHANGED <<wallet, transport, released, signedTx, thrown, frame, wire, decoded,
                   head, announced>>

\* getTransaction(entry.tx_hash, entry.height).then((tx) => this.addTransaction(tx));
\* header says whether the header fetch inside getTransaction succeeded
getTransactionResolves(p, header) ==
    /\ p \in promises
    /\ p.kind = "getTransaction"
    /\ p.height > 0 \/ header
    /\ addTransaction(TransactionAt(p.tx_hash, IF p.height > 0 /\ header THEN p.height ELSE 0))
    /\ promises' = promises \ {p}
    /\ UNCHANGED <<INACTIVE_ADDRESS_GAP, accountExtPubKey, ext_addresses, int_addresses,
                   arrays, runs, history, blocks, transport, released,
                   signedTx, thrown, frame, wire, decoded, head, pushed, announced>>

\* (mutation) the partial record is stored as one more field:
\* { ...this.txs[partialTx.txid], partialTx }
AssignNested(tx, partialTx) ==
    [key \in DOMAIN tx \cup {"partialTx"} |->
        IF key = "partialTx" THEN partialTx ELSE tx[key]]

\* for (const key in partialTx) { if (key === 'txid') continue; tx[key] = partialTx[key]; }
Assign(tx, partialTx) ==
    [key \in DOMAIN tx \cup DOMAIN partialTx |->
        IF key \in DOMAIN partialTx \ {"txid"} THEN partialTx[key] ELSE tx[key]]

\* updateTransaction(partialTx): the record this.txs[partialTx.txid] is written to
updateTransaction(ledger, partialTx) ==
    [ledger EXCEPT ![partialTx.txid] = Assign(@, partialTx)]

\* the partial record onStatusChanged builds from a block header
Partial(p) ==
    [txid |-> txs[p.tx_hash].txid, block_height |-> p.height,
     block_time |-> BlockHeader(p.height).timestamp,
     block_hash |-> BlockHeader(p.height).blockHash]

\* getBlockHeader(entry.height).then((blockHeader) => this.updateTransaction({...}));
\* the ledger is never emptied here, so this.txs[entry.tx_hash] is defined
getBlockHeaderResolves(p) ==
    /\ p \in promises
    /\ p.kind = "getBlockHeader"
    /\ p.tx_hash \in DOMAIN txs
    /\ txs' = updateTransaction(txs, Partial(p))
    /\ promises' = promises \ {p}
    /\ UNCHANGED <<INACTIVE_ADDRESS_GAP, accountExtPubKey, ext_addresses, int_addresses,
                   arrays, infos, runs, history, blocks, transport, released,
                   signedTx, thrown, frame, wire, decoded, head, pushed, announced>>

\* a fetch started by onStatusChanged is rejected: nothing handles it
Rejected(p) ==
    /\ p \in promises
    /\ p.kind \in {"getTransaction", "getBlockHeader"}
    /\ promises' = promises \ {p}
    /\ UNCHANGED <<wallet, transport, released, signedTx, thrown, frame, wire, decoded,
                   head, pushed, announced>>

\* signTransaction(): a transaction spending an unspent funding output of the wallet
\* is built and this.signedTx = tx.toHex(); a raw transaction is named by the
\* id it decodes to
signTransaction ==
    /\ LET unspent == utxos
       IN  \E i \in 1..Len(unspent) :
               /\ Head(unspent[i].hash) = "f"
               /\ signedTx' = Spending(Tail(unspent[i].hash))
    /\ UNCHANGED <<wallet, transport, released, promises, thrown, frame, wire, decoded,
                   head, pushed, announced>>

\* (mutation) the decoded record is returned whatever the node answered
broadcastUnchecked(rawTx, hash) ==
    [ok |-> TRUE, tx |-> TransactionAt(rawTx, 0), detail |-> rawTx]

\* ElectrumApi.broadcastTransaction(rawTx) once the node has answered hash:
\* if (hash === tx.txid) return tx; else throw new Error(hash)
broadcastTransaction(rawTx, hash) ==
    LET tx == TransactionAt(rawTx, 0)
    IN  IF hash = tx.txid
        THEN [ok |-> TRUE, tx |-> tx, detail |-> rawTx]
        ELSE [ok |-> FALSE, tx |-> tx, detail |-> hash]

\* methods.broadcastTransaction(): await ElectrumApi.broadcastTransaction(this.signedTx)
Broadcast ==
    /\ signedTx # <<>>
    /\ promises' = promises \cup {Promise("broadcast", signedTx, 0)}
    /\ UNCHANGED <<wallet, transport, released, signedTx, thrown, frame, wire, decoded,
                   head, pushed, announced>>

\* what a node answers to a broadcast: the id of the transaction it has
\* accepted, or something else
Answers(p) == {p.tx_hash, Funding(Tail(p.tx_hash)), <<"e", 0, 0, 0>>}

\* the node answers a broadcast and methods.broadcastTransaction goes on:
\* this.addTransaction(tx); ...; this.signedTx = ''
BroadcastAnswered(p, hash) ==
    /\ p \in promises
    /\ p.kind = "broadcast"
    /\ hash \in Answers(p)
    /\ promises' = promises \ {p}
    /\ IF hash = p.tx_hash
       THEN /\ Tail(p.tx_hash) \in DOMAIN history
            /\ history[Tail(p.tx_hash)] = <<Funding(Tail(p.tx_hash))>>
            /\ history' = Spent(Tail(p.tx_hash))
       ELSE history' = history
    /\ LET result == broadcastTransaction(p.tx_hash, hash)
       IN  IF result.ok
           THEN /\ addTransaction(result.tx)
                /\ signedTx' = <<>>
                /\ thrown' = thrown
           ELSE /\ thrown' = thrown \cup {result.detail}
                /\ UNCHANGED <<infos, txs, signedTx>>
    /\ UNCHANGED <<INACTIVE_ADDRESS_GAP, accountExtPubKey, ext_addresses, int_addresses,
                   arrays, runs, blocks, transport, released, frame, wire, decoded,
                   head, pushed, announced>>

\* the heights a status entry of the server can carry
StatusHeights == {0, Height, Reorganised(Height)}

\* the transactions that pay to the addresses of key 1
Fundings == {Funding(a) : a \in UsedAddresses(1)}

NextStatus ==
    \/ Watch(1)
    \/ \E r \in 1..MaxRuns : FetchReturns(r)
    \/ \E address \in UsedAddresses(1) : Pay(address)
    \/ \E txid \in Fundings : Mine(txid)
    \/ \E txid \in Fundings : Reorg(txid)
    \/ \E address \in UsedAddresses(1) : onStatusChanged(address)
    \/ \E txid \in Fundings, height \in StatusHeights, header \in BOOLEAN :
           getTransactionResolves(Promise("getTransaction", txid, height), header)
    \/ \E txid \in Fundings, height \in StatusHeights :
           getBlockHeaderResolves(Promise("getBlockHeader", txid, height))
    \/ \E txid \in Fundings, height \in StatusHeights,
          kind \in {"getTransaction", "getBlockHeader"} :
           Rejected(Promise(kind, txid, height))

\* the ledger of one account under status pushes and reorganisations
SpecStatus == InitWallet /\ [][NextStatus]_vars

NextBroadcast ==
    \/ Watch(1)
    \/ \E r \in 1..MaxRuns : FetchReturns(r)
    \/ \E address \in UsedAddresses(1) : Pay(address)
    \/ \E txid \in Fundings : Mine(txid)
    \/ signTransaction
    \/ Broadcast
    \/ \E address \in UsedAddresses(1) :
           \E hash \in Answers(Promise("broadcast", Spending(address), 0)) :
               BroadcastAnswered(Promise("broadcast", Spending(address), 0), hash)

\* an account that is paid, signs transactions and broadcasts them
SpecBroadcast == InitWallet /\ [][NextBroadcast]_vars

\* the heights of the chain tips the server announces
TipHeights == {Height + i : i \in 1..MaxTips}

\* a notification of blockchain.headers.subscribe reaches the callback of
\* subscribeHeaders: callback(await this.getBlockHeader(headerInfo.height));
\* the chain grows, so every tip is higher than the one before
TipAnnounced(height) ==
    /\ height > announced
    /\ announced' = height
    /\ promises' = promises \cup {Promise("head", <<>>, height)}
    /\ UNCHANGED <<wallet, transport, released, signedTx, thrown, frame, wire, decoded,
                   head, pushed>>

\* the header fetch of a notification is answered and the callback given to
\* subscribeHeaders runs: (header) => this.onHeadChanged(header)
onHeadChanged(p) ==
    /\ p \in promises
    /\ p.kind = "head"
    /\ head' = [height |-> BlockHeader(p.height).blockHeight,
                timestamp |-> BlockHeader(p.height).timestamp]
    /\ promises' = promises \ {p}
    /\ UNCHANGED <<wallet, transport, released, signedTx, thrown, frame, wire, decoded,
                   pushed, announced>>

NextHead ==
    \/ \E height \in TipHeights : TipAnnounced(height)
    \/ \E height \in TipHeights : onHeadChanged(Promise("head", <<>>, height))

\* the head of the wallet while the server announces new tips
SpecHead == Init /\ [][NextHead]_vars

NextPushes ==
    \/ Watch(1)
    \/ \E r \in 1..MaxRuns : FetchReturns(r)
    \/ \E address \in UsedAddresses(1) : Pay(address)
    \/ \E txid \in Fundings : Mine(txid)
    \/ \E txid \in Fundings : Reorg(txid)
    \/ \E address \in UsedAddresses(1) : onStatusChanged(address)
    \/ \E txid \in Fundings, height \in StatusHeights :
           getTransactionResolves(Promise("getTransaction", txid, height), TRUE)
    \/ \E txid \in Fundings, height \in StatusHeights :
           getBlockHeaderResolves(Promise("getBlockHeader", txid, height))

\* status pushes whose fetches are all answered, in any order
SpecPushes == InitWallet /\ [][NextPushes]_vars

NextAccount ==
    \/ Watch(1)
    \/ \E r \in 1..MaxRuns : FetchReturns(r)
    \/ \E address \in UsedAddresses(1) : Pay(address)
    \/ \E txid \in Fundings : Mine(txid)
    \/ \E address \in UsedAddresses(1) : onStatusChanged(address)
    \/ \E txid \in Fundings, height \in StatusHeights, header \in BOOLEAN :
           getTransactionResolves(Promise("getTransaction", txid, height), header)
    \/ \E txid \in Fundings, height \in StatusHeights :
           getBlockHeaderResolves(Promise("getBlockHeader", txid, height))
    \/ signTransaction
    \/ Broadcast
    \/ \E address \in UsedAddresses(1) :
           \E hash \in Answers(Promise("broadcast", Spending(address), 0)) :
               BroadcastAnswered(Promise("broadcast", Spending(address), 0), hash)

\* an account that is paid, follows status pushes, signs and broadcasts
SpecAccount == InitWallet /\ [][NextAccount]_vars

(***************************************************************************)
(* ElectrumApi.getHistory, one step per await: the receipts, the block      *)
(* headers of the confirmed entries, then the transactions.                 *)
(***************************************************************************)
\* the heights a server reports: -1 and 0 for an entry of the mempool (with
\* and without unconfirmed parents), otherwise the height of its block
EntryHeights == {-1, 0, 300, 500}

\* the answers to blockchain.scripthash.get_history: the n-th entry of an
\* answer is transaction n
ReceiptLists ==
    UNION {{[i \in 1..n |-> [tx_hash |-> <<"t", i>>, height |-> heights[i]]] :
                heights \in [1..n -> EntryHeights]} : n \in 0..MaxReceipts}

\* the comparator of history.sort: a is put before b when
\* (b.height || Number.MAX_SAFE_INTEGER) - (a.height || Number.MAX_SAFE_INTEGER) < 0
ComesFirst(a, b) ==
    b.height # 0 /\ (a.height = 0 \/ a.height > b.height)

\* history.sort(comparator): a stable sort
RECURSIVE SortHistory(_)
SortHistory(entries) ==
    IF entries = <<>> THEN <<>>
    ELSE LET last == entries[Len(entries)]
             rest == SortHistory(SubSeq(entries, 1, Len(entries) - 1))
             Stays(e) == ~ComesFirst(last, e)
             Moves(e) == ComesFirst(last, e)
         IN  SelectSeq(rest, Stays) \o <<last>> \o SelectSeq(rest, Moves)

\* history.reduce(...): the heights that are numbers above 0, in order
BlockHeightsOf(entries) ==
    LET InBlock(e) == e.height > 0
        kept == SelectSeq(entries, InBlock)
    IN  [i \in 1..Len(kept) |-> kept[i].height]

\* transactionToPlain(raw) without a header: the confirmation fields are null (0)
Plain(tx_hash) ==
    [txid |-> tx_hash, block_hash |-> <<>>, block_height |-> 0, block_time |-> 0]

\* (mutation) the confirmation fields are set from the entry's height alone
AttachAlways(tx, height, blockHeaders) ==
    IF height > 0
    THEN [tx EXCEPT !.block_height = height,
                    !.block_time = BlockHeader(height).timestamp,
                    !.block_hash = BlockHeader(height).blockHash]
    ELSE tx

\* const blockHeader = blockHeaders.get(height); if (blockHeader) { ... }
Attach(tx, height, blockHeaders) ==
    IF height \in DOMAIN blockHeaders
    THEN [tx EXCEPT !.block_height = height,
                    !.block_time = blockHeaders[height].timestamp,
                    !.block_hash = blockHeaders[height].blockHash]
    ELSE tx

\* the requests getHistory puts on the socket
HistoryRequest == [method |-> "blockchain.scripthash.get_history", param |-> 0]
HeaderRequest(height) == [method |-> "blockchain.block.header", param |-> height]
TransactionRequest(tx_hash) == [method |-> "blockchain.transaction.get", param |-> tx_hash]

\* the call and its requests when the loop over history is at entry i
TransactionLoop(f, w, i) ==
    IF i <= Len(f.history)
    THEN [frame |-> [f EXCEPT !.pc = "transaction", !.at = i],
          wire |-> Append(w, TransactionRequest(f.history[i].tx_hash))]
    ELSE [frame |-> [f EXCEPT !.pc = "returned", !.at = 0], wire |-> w]

\* the call and its requests when the loop over blockHeights is at height i
HeaderLoop(f, w, i) ==
    IF i <= Len(f.blockHeights)
    THEN [frame |-> [f EXCEPT !.pc = "header", !.at = i],
          wire |-> Append(w, HeaderRequest(f.blockHeights[i]))]
    ELSE TransactionLoop(f, w, 1)

\* (mutation) catch (error) { console.error(error); } and on to the next height
HeaderSkipped(f, w) == HeaderLoop(f, w, f.at + 1)

\* catch (error) { console.error(error); break; } in the header loop
HeaderFailed(f, w) == TransactionLoop(f, w, 1)

\* (mutation) catch (error) { console.error(error); } and on to the next entry
TransactionSkipped(f, w) == TransactionLoop(f, w, f.at + 1)

\* catch (error) { console.error(error); return txs; } in the transaction loop
TransactionFailed(f, w) == [frame |-> [f EXCEPT !.pc = "returned", !.at = 0], wire |-> w]

\* the frame conditions of a step of getHistory
OnlyFacade ==
    UNCHANGED <<transport, released, wallet, signedTx, promises, thrown, decoded,
                head, pushed, announced>>

\* getHistory(script) is called and awaits getReceipts(script)
getHistory ==
    /\ frame.pc = "idle"
    /\ frame' = [frame EXCEPT !.pc = "receipts"]
    /\ wire' = Append(wire, HistoryRequest)
    /\ OnlyFacade

\* the server answers: history is sorted, blockHeights collected, and the
\* first header (or else the first transaction) is requested
ReceiptsArrive(receipts) ==
    /\ frame.pc = "receipts"
    /\ LET next == HeaderLoop([frame EXCEPT !.receipts = receipts,
                                            !.history = SortHistory(receipts),
                                            !.blockHeights =
                                                BlockHeightsOf(SortHistory(receipts))],
                              wire, 1)
       IN  frame' = next.frame /\ wire' = next.wire
    /\ OnlyFacade

\* the request for the receipts is rejected: getHistory throws
ReceiptsFail ==
    /\ frame.pc = "receipts"
    /\ frame' = [frame EXCEPT !.pc = "thrown"]
    /\ wire' = wire
    /\ OnlyFacade

\* blockHeaders.set(height, await this.getBlockHeader(height))
HeaderArrives ==
    /\ frame.pc = "header"
    /\ LET height == frame.blockHeights[frame.at]
           next == HeaderLoop([frame EXCEPT !.blockHeaders =
                                               (height :> BlockHeader(height)) @@ @],
                              wire, frame.at + 1)
       IN  frame' = next.frame /\ wire' = next.wire
    /\ OnlyFacade

\* getBlockHeader(height) throws
HeaderFails ==
    /\ frame.pc = "header"
    /\ frame' = HeaderFailed(frame, wire).frame
    /\ wire' = HeaderFailed(frame, wire).wire
    /\ OnlyFacade

\* const tx = await this.getTransaction(tx_hash); ...; txs.push(tx)
TransactionArrives ==
    /\ frame.pc = "transaction"
    /\ LET entry == frame.history[frame.at]
           tx == Attach(Plain(entry.tx_hash), entry.height, frame.blockHeaders)
           next == TransactionLoop([frame EXCEPT !.txs = Append(@, tx)], wire,
                                   frame.at + 1)
       IN  frame' = next.frame /\ wire' = next.wire
    /\ OnlyFacade

\* getTransaction(tx_hash) throws
TransactionFails ==
    /\ frame.pc = "transaction"
    /\ frame' = TransactionFailed(frame, wire).frame
    /\ wire' = TransactionFailed(frame, wire).wire
    /\ OnlyFacade

NextHistory ==
    \/ getHistory
    \/ \E receipts \in ReceiptLists : ReceiptsArrive(receipts)
    \/ ReceiptsFail
    \/ HeaderArrives
    \/ HeaderFails
    \/ TransactionArrives
    \/ TransactionFails

\* one call of getHistory under every answer and every failure of the server
SpecHistory == Init /\ [][NextHistory]_vars

(***************************************************************************)
(* ElectrumApi.deriveAddressFromInput: the address type is chosen by the    *)
(* number of chunks of the script and of items of the witness.              *)
(***************************************************************************)
\* (mutation) every item but the last is counted as a signature
SignaturesButLast(length) == length - 1

\* const m = chunks.length - 2 (witness.length - 2): the number of signatures
Signatures(length) == length - 2

\* the address a payment of the library yields for a type and a threshold
Payment(type, m) == [type |-> type, m |-> m]

\* the if statements of deriveAddressFromInput, in their order: the first
\* whose condition holds returns
deriveAddressFromInput(chunks, witness) ==
    IF chunks = 2 /\ witness = 0 THEN Payment("p2pkh", 1)
    ELSE IF chunks = 1 /\ witness = 2 THEN Payment("p2sh(p2wpkh)", 1)
    ELSE IF chunks = 0 /\ witness = 2 THEN Payment("p2wpkh", 1)
    ELSE IF chunks > 2 /\ witness = 0 THEN Payment("p2sh(p2ms)", Signatures(chunks))
    ELSE IF chunks = 1 /\ witness > 2
    THEN Payment("p2sh(p2wsh(p2ms))", Signatures(witness))
    ELSE IF chunks = 0 /\ witness > 2 THEN Payment("p2wsh(p2ms)", Signatures(witness))
    ELSE Payment("-unkown-", 0)

\* the conditions of the if statements that hold for an input
Matching(chunks, witness) ==
    {k \in 1..6 :
        \/ k = 1 /\ chunks = 2 /\ witness = 0
        \/ k = 2 /\ chunks = 1 /\ witness = 2
        \/ k = 3 /\ chunks = 0 /\ witness = 2
        \/ k = 4 /\ chunks > 2 /\ witness = 0
        \/ k = 5 /\ chunks = 1 /\ witness > 2
        \/ k = 6 /\ chunks = 0 /\ witness > 2}

\* inputToPlain(input, index): address: this.deriveAddressFromInput(input)
inputToPlain(chunks, witness) ==
    /\ decoded' = [chunks |-> chunks, witness |-> witness,
                   address |-> deriveAddressFromInput(chunks, witness)]
    /\ UNCHANGED <<transport, released, wallet, signedTx, promises, thrown, frame, wire,
                   head, pushed, announced>>

NextDecode == \E chunks \in 0..MaxItems, witness \in 0..MaxItems : inputToPlain(chunks, witness)

\* the inputs of the transactions the facade decodes
SpecDecode == Init /\ [][NextDecode]_vars

\* a server whose addresses are used in any pattern, and any gap limit
Patterns(xPub) == [UsedAddresses(xPub) -> {FALSE, TRUE}]

InitDiscovery ==
    /\ Constructor
    /\ data
    /\ INACTIVE_ADDRESS_GAP \in 1..MaxGap
    /\ \E used \in Patterns(1) :
           history = [a \in {x \in UsedAddresses(1) : used[x]} |-> <<Funding(a)>>]
    /\ blocks = <<>>

NextDiscovery ==
    \/ Watch(1)
    \/ \E r \in 1..MaxRuns : FetchReturns(r)

\* one discovery run against a server that answers every fetch
SpecDiscovery ==
    InitDiscovery /\ [][NextDiscovery]_vars
        /\ WF_vars(\E r \in 1..MaxRuns : FetchReturns(r))

(***************************************************************************)
(* Properties of the discovery.                                            *)
(***************************************************************************)
\* the array this.ext_addresses (chain 0) or this.int_addresses (chain 1)
List(chain) == arrays[IF chain = 0 THEN ext_addresses ELSE int_addresses]

\* the entries of a chain's list, as objects
Entries(chain) == [i \in 1..Len(List(chain)) |-> infos[List(chain)[i]]]

\* the last n entries exist and are inactive
TrailingInactive(entries, n) ==
    /\ Len(entries) >= n
    /\ \A i \in Len(entries) - n + 1..Len(entries) : ~entries[i].active

\* run r is past the loops of the chain
ScanFinished(r, chain) ==
    \/ runs[r].pc = "done"
    \/ runs[r].pc \in {"rescan", "derive"} /\ runs[r].chain > chain

UsedUpTo3(xPub, chain) ==
    /\ \A i \in 0..2 : Receipts(Address(xPub, chain, i)) # <<>>
    /\ Receipts(Address(xPub, chain, 3)) = <<>>

\* C14: with a gap limit of 1 and a history at the indices 0, 1 and 2 only, a
\* run that started from empty lists never creates an AddressInfo with an index
\* above 3, and once it is past the chain the list holds exactly the entries
\* 0..3, the first three active and the last inactive.
C14_HaltsAtFirstGap ==
    \A chain \in Chains :
        (INACTIVE_ADDRESS_GAP = 1 /\ UsedUpTo3(1, chain)) =>
            /\ \A k \in 1..Len(infos) : infos[k].chain = chain => infos[k].index <= 3
            /\ Len(List(chain)) <= 4
            /\ \A r \in 1..Len(runs) :
                   ScanFinished(r, chain) =>
                       Entries(chain) =
                           [i \in 1..4 |-> [xPub |-> 1, chain |-> chain, index |-> i - 1,
                                            active |-> i <= 3]]

\* the run has returned and found the external addresses 0, 1 and 2 active
C14_Witness ==
    /\ INACTIVE_ADDRESS_GAP = 1
    /\ UsedUpTo3(1, 0)
    /\ Len(runs) = 1 /\ runs[1].pc = "done"
    /\ Len(List(0)) = 4

C16_IndexIsPosition ==
    \A chain \in Chains :
        \A i \in 1..Len(List(chain)) : Entries(chain)[i].index = i - 1

\* every entry of the list is still in the list, at its position
Kept(before, after) ==
    /\ Len(after) >= Len(before)
    /\ SubSeq(after, 1, Len(before)) = before

\* C17 as stated: no step removes an entry from the list of its chain.
C17_NeverRemoved ==
    [][\A chain \in Chains : Kept(List(chain), List(chain)')]_vars

\* C17 as amended: an entry leaves the list of its chain only when the watcher
\* is called for a change from one key to another key, which leaves both lists
\* empty; every other step keeps every entry at its position.
C17_RemovedOnlyByReset ==
    [][\/ \A chain \in Chains : Kept(List(chain), List(chain)')
       \/ /\ accountExtPubKey # 0 /\ accountExtPubKey' # 0
          /\ accountExtPubKey' # accountExtPubKey
          /\ Len(runs') = Len(runs) + 1
          /\ \A chain \in Chains : List(chain)' = <<>>]_vars

\* the lists were replaced after entries had been appended, and the run of the
\* new key has appended an entry of its own
C17_Witness ==
    /\ Len(arrays) >= 4
    /\ arrays[1] # <<>>
    /\ List(0) # <<>>

\* C18: no step takes the active flag of an AddressInfo from true to false.
C18_ActiveNeverReverts ==
    [][\A k \in 1..Len(infos) : infos[k].active => infos'[k].active]_vars

(***************************************************************************)
(* Properties of the ledger.                                               *)
(***************************************************************************)
\* the address whose history run r is waiting for
Fetching(r) == Address(infos[runs[r].info].xPub, infos[runs[r].info].chain,
                       infos[runs[r].info].index)

\* the ledger after is the ledger before with every record of the batch
\* stored under its id, in place of a record that was there, and with the
\* records under all other ids as they were
Merged(before, records, after) ==
    /\ DOMAIN after = DOMAIN before \cup BatchIds(records)
    /\ \A i \in 1..Len(records) : after[records[i].txid] = records[i]
    /\ \A id \in DOMAIN before \ BatchIds(records) : after[id] = before[id]

\* C20: the record stored under an id carries that id; a history fetch that
\* returns merges its batch into the ledger as it is at that moment, whatever
\* was ingested while the fetch was under way, and addTransaction merges its
\* one record.
C20_IngestKeyedById ==
    [][/\ \A id \in DOMAIN txs' : txs'[id].txid = id
       /\ \A r \in 1..Len(runs) :
              /\ FetchReturns(r) =>
                     Merged(txs, History(Fetching(r), Len(Receipts(Fetching(r)))), txs')
              /\ \A fetched \in 0..MaxUsed :
                     FetchCutShort(r, fetched) =>
                         Merged(txs, History(Fetching(r), fetched), txs')
       /\ \A txid \in Transactions :
              TransactionAdded(Transaction(txid)) =>
                  Merged(txs, <<Transaction(txid)>>, txs')]_vars

\* the ledger holds the confirmed record of a transaction, stored while the
\* history fetch of a run for the address it pays to is still under way: the
\* batch of that fetch will bring a record for an id the ledger has
C20_Witness ==
    \E r \in 1..Len(runs) :
        /\ runs[r].pc \in {"rescan", "derive"}
        /\ Funding(Fetching(r)) \in DOMAIN txs
        /\ txs[Funding(Fetching(r))].block_height = Height

\* the outputs (txid, index) of the ledger that pay to a listed address and
\* that no input of a ledger record refers to
UnspentOwned ==
    {<<id, index>> \in (DOMAIN txs) \X (0..MaxOutputs) :
         /\ index + 1 <= Len(txs[id].outputs)
         /\ txs[id].outputs[index + 1].address
                \in AddressesOf(List(0)) \cup AddressesOf(List(1))
         /\ \A other \in DOMAIN txs :
                \A k \in 1..Len(txs[other].inputs) :
                    ~ /\ txs[other].inputs[k].txid = id
                      /\ txs[other].inputs[k].output_index = index}

\* C19: the computed list names exactly the unspent outputs of the ledger that
\* pay to a listed address, each of them once.
C19_UtxosAreUnspentOwned ==
    /\ {<<utxos[i].hash, utxos[i].index>> : i \in 1..Len(utxos)} = UnspentOwned
    /\ \A i, j \in 1..Len(utxos) :
           (utxos[i].hash = utxos[j].hash /\ utxos[i].index = utxos[j].index) => i = j

\* the ledger holds a transaction with two outputs to listed addresses, one of
\* them spent by an input of the other record, so that exactly one is listed
C19_Witness ==
    /\ Cardinality(DOMAIN txs) = 2
    /\ Len(txs[Funding(Address(1, 0, 0))].outputs) = 2
    /\ SpentKeys # <<>>
    /\ Len(utxos) = 1
    /\ utxos[1].hash = Funding(Address(1, 0, 0))

\* the height the server reported for a returned record
ReportedHeight(tx) ==
    frame.receipts[CHOOSE i \in 1..Len(frame.receipts) :
                       frame.receipts[i].tx_hash = tx.txid].height

\* C22: getHistory returns the records of the entries that are in no block
\* first, and after them the records of the confirmed entries, highest block
\* first.
C22_UnconfirmedFirstThenDescending ==
    frame.pc = "returned" =>
        \A i, j \in 1..Len(frame.txs) :
            i < j =>
                LET hi == ReportedHeight(frame.txs[i])
                    hj == ReportedHeight(frame.txs[j])
                IN  /\ ~(hi > 0 /\ hj <= 0)
                    /\ (hi > 0 /\ hj > 0) => hi >= hj

\* the hashes of the transactions requested so far, in order
RequestedTransactions ==
    LET IsGet(q) == q.method = "blockchain.transaction.get"
        gets == SelectSeq(wire, IsGet)
    IN  [i \in 1..Len(gets) |-> gets[i].param]

\* the heights of the headers requested so far, in order
RequestedHeaders ==
    LET IsHeader(q) == q.method = "blockchain.block.header"
        gets == SelectSeq(wire, IsHeader)
    IN  [i \in 1..Len(gets) |-> gets[i].param]

\* C23: when the fetch of a transaction fails, getHistory returns, with the
\* records of the entries before the failing one, in the order of the sorted
\* history, and it has requested no entry after the failing one.
C23_FailureCutsHistoryShort ==
    /\ [][TransactionFails =>
              /\ frame'.pc = "returned"
              /\ frame'.txs = frame.txs
              /\ wire' = wire]_vars
    /\ [](frame.pc = "returned" =>
              LET n == Len(frame.txs)
                  asked == IF n < Len(frame.history) THEN n + 1 ELSE n
              IN  /\ \A i \in 1..n : frame.txs[i].txid = frame.history[i].tx_hash
                  /\ RequestedTransactions =
                         [i \in 1..asked |-> frame.history[i].tx_hash])
    /\ [](frame.pc = "thrown" => frame.receipts = <<>> /\ Len(wire) = 1)

\* the second of three transactions could not be fetched
C23_Witness ==
    /\ frame.pc = "returned"
    /\ Len(frame.history) = 3
    /\ Len(frame.txs) = 1

\* C26: when the fetch of a block header fails, the header loop is left: no
\* further header is requested during that call, the call does not throw, and
\* the transaction loop starts at the first entry and asks for every entry
\* (unless a transaction fetch fails).
C26_HeaderFailureEndsPrefetch ==
    /\ [][HeaderFails =>
              /\ frame'.pc = "transaction"
              /\ frame'.at = 1
              /\ wire' = Append(wire, TransactionRequest(frame.history[1].tx_hash))]_vars
    /\ [][frame.pc \in {"transaction", "returned"} =>
              /\ RequestedHeaders' = RequestedHeaders
              /\ frame'.pc # "thrown"]_vars
    /\ [](frame.pc = "returned" /\ Len(frame.txs) = Len(frame.history) =>
              RequestedTransactions =
                  [i \in 1..Len(frame.history) |-> frame.history[i].tx_hash])

\* the header of the first of three confirmed entries could not be fetched,
\* and the three transactions were
C26_Witness ==
    /\ frame.pc = "returned"
    /\ Len(frame.blockHeights) = 3
    /\ Len(RequestedHeaders) = 1
    /\ frame.blockHeaders = <<>>
    /\ Len(frame.txs) = 3

C30_ActiveIffServerHistory ==
    [][\A r \in 1..Len(runs) :
           (FetchReturns(r) \/ \E fetched \in 0..MaxUsed : FetchCutShort(r, fetched)) =>
               infos'[runs[r].info].active = (Receipts(Fetching(r)) # <<>>)]_vars

\* getReceipts(scriptHash, true): the request it makes
getReceipts(scriptHash) ==
    [method |-> "blockchain.scripthash.get_history", param |-> scriptHash]

\* the handler subscribeStatus registers:
\* async (scriptHash, status) => callback(await this.getReceipts(scriptHash, true))
StatusHandler(args) == getReceipts(args[1])

\* C29: whenever the handler of a status subscription runs, on the result of
\* the subscribe request or on a push, the history it requests is that of the
\* script hash the subscription was made for.
C29_HandlerQueriesSubscribedScript ==
    \A i \in 1..Len(cbLog) :
        LET subscription == reqs[cbLog[i].callback]
        IN  (subscription.kind = "subscribe" /\ subscription.params # <<>>) =>
                StatusHandler(cbLog[i].args).param = subscription.params[1]

\* C25: the address of an input is the one the table gives for its number of
\* script chunks and of witness items; an input no row covers gets the
\* sentinel, and no input is covered by two rows.
C25_TypeByChunkAndWitnessCount ==
    decoded # <<>> =>
        LET c == decoded.chunks
            w == decoded.witness
        IN  /\ decoded.address =
                   CASE c = 2 /\ w = 0 -> [type |-> "p2pkh", m |-> 1]
                     [] c = 1 /\ w = 2 -> [type |-> "p2sh(p2wpkh)", m |-> 1]
                     [] c = 0 /\ w = 2 -> [type |-> "p2wpkh", m |-> 1]
                     [] c > 2 /\ w = 0 -> [type |-> "p2sh(p2ms)", m |-> c - 2]
                     [] c = 1 /\ w > 2 -> [type |-> "p2sh(p2wsh(p2ms))", m |-> w - 2]
                     [] c = 0 /\ w > 2 -> [type |-> "p2wsh(p2ms)", m |-> w - 2]
                     [] OTHER -> [type |-> "-unkown-", m |-> 0]
            /\ Cardinality(Matching(c, w)) <= 1
            /\ (Matching(c, w) = {}) = (decoded.address.type = "-unkown-")

\* a nested multisig input with two signatures was decoded
C25_Witness ==
    /\ decoded # <<>>
    /\ decoded.chunks = 1
    /\ decoded.witness = 4
    /\ decoded.address = [type |-> "p2sh(p2wsh(p2ms))", m |-> 2]

\* a record that carries block_height, block_time and block_hash of a block
Confirmed(tx) == tx.block_height > 0 /\ tx.block_time # 0 /\ tx.block_hash # <<>>

\* C21: no step changes a field of a ledger record that is confirmed.
C21_ConfirmedRecordsImmutable ==
    [][\A id \in DOMAIN txs \cap DOMAIN txs' :
           Confirmed(txs[id]) => txs'[id] = txs[id]]_vars

C24_BroadcastChecksNodeAnswer ==
    /\ [][\A p \in promises : \A hash \in Answers(p) :
              BroadcastAnswered(p, hash) =>
                  IF hash = TransactionAt(p.tx_hash, 0).txid
                  THEN /\ txs' = Set(txs, TransactionAt(p.tx_hash, 0))
                       /\ signedTx' = <<>>
                       /\ thrown' = thrown
                  ELSE /\ txs' = txs
                       /\ signedTx' = signedTx
                       /\ thrown' = thrown \cup {hash}]_vars
    /\ [][(signedTx # <<>> /\ signedTx' = <<>>) =>
              \E p \in promises : BroadcastAnswered(p, p.tx_hash)]_vars
    /\ [][\A id \in Transactions \ Fundings :
              (id \notin DOMAIN txs /\ id \in DOMAIN txs') =>
                  \E p \in promises : BroadcastAnswered(p, p.tx_hash)]_vars

\* one broadcast failed with the answer of the node as detail, a later one
\* succeeded: the spending transaction is in the ledger and signedTx is empty
C24_Witness ==
    /\ signedTx = <<>>
    /\ thrown # {}
    /\ \E id \in Transactions \ Fundings : id \in DOMAIN txs


\* a step of a method outside accountExtPubKey's watcher, or of the server
OutsideScan == runs' = runs /\ accountExtPubKey' = accountExtPubKey

\* C31 (as claimed): outside the discovery scan loop no method changes
\* ext_addresses, int_addresses or any field of an AddressInfo entry
C31_OnlyScanChangesAddressInfo ==
    [][OutsideScan => UNCHANGED <<ext_addresses, int_addresses, arrays, infos>>]_vars

\* C31: outside the discovery scan loop no entry is added, removed or
\* reordered and no address or index changes; only the steps that call
\* addTransaction (the answer to a transaction fetch of onStatusChanged and the
\* accepted broadcast) change an entry, and only by setting active to true on
\* an entry whose address an output of a ledger record pays
C31_MethodsOnlyMarkActive ==
    [][OutsideScan =>
           /\ UNCHANGED <<ext_addresses, int_addresses, arrays>>
           /\ Len(infos') = Len(infos)
           /\ \A k \in 1..Len(infos) :
                  infos'[k] # infos[k] =>
                      /\ ~infos[k].active
                      /\ infos'[k] = [infos[k] EXCEPT !.active = TRUE]
                      /\ \E id \in DOMAIN txs' : \E i \in 1..Len(txs'[id].outputs) :
                             Owner(txs'[id].outputs[i].address) = k
                      /\ \E p \in promises \ promises' :
                             p.kind \in {"getTransaction", "broadcast"}]_vars

\* the scan has returned and left an inactive entry at the end of the external
\* list, and addTransaction has marked it
C31_Witness ==
    /\ runs # <<>>
    /\ \A r \in 1..Len(runs) : runs[r].pc = "done"
    /\ List(0) # <<>>
    /\ infos[List(0)[Len(List(0))]].active

\* C32: when the last fetch that onStatusChanged started for a transaction is
\* answered, the record of the transaction carries the height the most recent
\* status push gave it
C32_LastPushWins ==
    [][\A p \in promises :
           /\ getTransactionResolves(p, TRUE) \/ getBlockHeaderResolves(p)
           /\ \A q \in promises' : q.tx_hash # p.tx_hash
           => txs'[p.tx_hash].block_height = pushed[p.tx_hash]]_vars

\* C33: whenever a key is loaded and no discovery run is in progress, every
\* entry of ext_addresses and int_addresses was derived from the loaded key
C33_EntriesOfLoadedKey ==
    (/\ accountExtPubKey # 0
     /\ \A r \in 1..Len(runs) : runs[r].pc \notin {"rescan", "derive"})
        => \A chain \in Chains : \A i \in 1..Len(Entries(chain)) :
               Entries(chain)[i].xPub = accountExtPubKey

\* the callback of subscribe call c was the one stored under its routing key
\* when a later unsubscribe call removed that key
Unsubscribed(c) ==
    \E n \in c + 1..Len(reqs) :
        /\ reqs[n].kind = "unsubscribe"
        /\ CallKey(reqs[n]) = CallKey(reqs[c])
        /\ \A k \in c + 1..n - 1 :
               reqs[k].kind = "subscribe" => CallKey(reqs[k]) # CallKey(reqs[c])

\* C34: once unsubscribe has removed a routing key, the callback that was
\* registered under it is not invoked again, neither by a push nor with the
\* initial result of its subscribe call
C34_SilentAfterUnsubscribe ==
    [][\A i \in Len(cbLog) + 1..Len(cbLog') : ~Unsubscribed(cbLog'[i].callback)]_vars

\* C35: once every header fetch started by a tip notification is answered,
\* the head of the wallet is the tip announced last
C35_HeadIsLatestTip ==
    (announced # 0 /\ \A p \in promises : p.kind # "head") => head.height = announced

\* C36: once the discovery run for the loaded key has returned, each chain has
\* an inactive entry, so that nextReceivingAddress and nextChangeAddress are defined
C36_AlwaysAnUnusedAddress ==
    (/\ accountExtPubKey # 0
     /\ runs # <<>>
     /\ \A r \in 1..Len(runs) : runs[r].pc = "done")
        => \A chain \in Chains : \E i \in 1..Len(Entries(chain)) : ~Entries(chain)[i].active
====
